---------------------------- MODULE Spec2Model ----------------------------
(***************************************************************************)
(* Model of the grid pathfinder (search / getNeighbors) and of             *)
(* RangedAttackAction (canPerform / perform) of ng-threejs-turn-based-rpg. *)
(*                                                                         *)
(* A coordinate is <<x, z>> (the vertical axis is always 0).  A world is   *)
(* a record [width, height, objects] where objects is the set of occupied  *)
(* cells.  Maps (cost, cameFrom) are functions whose DOMAIN is the set of  *)
(* keys that were set.                                                     *)
(***************************************************************************)
EXTENDS Integers, Sequences, FiniteSets, TLC

VARIABLES
    world, start, end,        \* arguments of search
    pc,                       \* position inside search
    frontier, cost, cameFrom, \* working state of one search call
    pathFound, curr, path,    \* locals of search
    result,                   \* value returned by search
    expanded,                 \* calls of getNeighbors: the cell and its recorded cost
    actors,                   \* the actors: coordinates, opponent, capabilities
    target,                   \* RangedAttackAction.target
    apc,                      \* position inside canPerform / perform
    validation,               \* value returned by canPerform
    cues,                     \* facing and animation requests, in call order
    hits,                     \* hit() calls, in call order
    effects,                  \* every call perform makes on an actor, in call order
    clock                     \* time elapsed in timers

searchVars == <<world, start, end, pc, frontier, cost, cameFrom,
                pathFound, curr, path, result, expanded>>

attackVars == <<actors, target, apc, validation, cues, hits, effects, clock>>

vars == <<searchVars, attackVars>>

-----------------------------------------------------------------------------
(* Bounds of the explored inputs *)

\* the exhaustively explored grids have sides of at most MaxSide and at
\* most MaxCells cells
MaxSide == 3

MaxCells == 9

\* actors stand on coordinates 0 .. MaxCoord on both axes
MaxCoord == 5

\* Math.random() is sampled at k / RandomSteps, k = 0 .. RandomSteps - 1
RandomSteps == 10

-----------------------------------------------------------------------------
(* Values *)

Null == "null"

\* an actor without coordinate data
NoCoords == <<>>

\* the values search returns: null, or an array of coordinates
NullResult == [isNull |-> TRUE, path |-> <<>>]

PathResult(p) == [isNull |-> FALSE, path |-> p]

maxSearchDistance == 20

Abs(n) == IF n < 0 THEN -n ELSE n

\* THREE.Vector3.manhattanDistanceTo, with y = 0 on both sides
manhattanDistanceTo(a, b) == Abs(a[1] - b[1]) + Abs(a[2] - b[2])

\* THREE.Vector3.equals
equals(a, b) == a[1] = b[1] /\ a[2] = b[2]

\* getKey: the stable encoding of a coordinate (x, y, z with y = 0)
getKey(coords) == <<coords[1], 0, coords[2]>>

\* world.getObject: the occupant of a cell, or null
getObject(w, coords) == IF coords \in w.objects THEN "object" ELSE Null

Cells(w, h) == (0 .. w - 1) \X (0 .. h - 1)

\* Map.set
MapSet(m, k, v) == [x \in DOMAIN m \cup {k} |-> IF x = k THEN v ELSE m[x]]

EmptyMap == [x \in {} |-> 0]

-----------------------------------------------------------------------------
(* frontier.sort: Array.prototype.sort is stable (ECMAScript 2019), so     *)
(* elements with equal f keep their relative order.                        *)

\* the comparator's f for one element: g is the Manhattan distance from
\* start (not the cost map entry), h the Manhattan distance to end
sortKey(v, s, e) == manhattanDistanceTo(s, v) + manhattanDistanceTo(v, e)

RECURSIVE InsertStable(_, _, _, _)
InsertStable(sorted, v, s, e) ==
    IF sorted = <<>> THEN <<v>>
    ELSE IF sortKey(Head(sorted), s, e) <= sortKey(v, s, e)
         THEN <<Head(sorted)>> \o InsertStable(Tail(sorted), v, s, e)
         ELSE <<v>> \o sorted

RECURSIVE SortFrom(_, _, _, _)
SortFrom(sorted, rest, s, e) ==
    IF rest = <<>> THEN sorted
    ELSE SortFrom(InsertStable(sorted, Head(rest), s, e), Tail(rest), s, e)

sortFrontier(f, s, e) == SortFrom(<<>>, f, s, e)

neverExceeds(candidate, s) == FALSE

exceedsByMoreThanOne(candidate, s) ==
    manhattanDistanceTo(candidate, s) > maxSearchDistance + 1

\* if (candidate.manhattanDistanceTo(start) > maxSearchDistance) continue
exceedsSearchDistance(candidate, s) ==
    manhattanDistanceTo(candidate, s) > maxSearchDistance

-----------------------------------------------------------------------------
(* getNeighbors *)

diagonalNeighbors(coords, w) ==
    (IF coords[1] > 0 /\ coords[2] > 0
     THEN <<<<coords[1] - 1, coords[2] - 1>>>> ELSE <<>>)
    \o (IF coords[1] < w.width - 1 THEN <<<<coords[1] + 1, coords[2]>>>> ELSE <<>>)
    \o (IF coords[2] > 0 THEN <<<<coords[1], coords[2] - 1>>>> ELSE <<>>)
    \o (IF coords[2] < w.height - 1 THEN <<<<coords[1], coords[2] + 1>>>> ELSE <<>>)

\* the in-bounds neighbours in the order Left, Right, Top, Bottom
boundedNeighbors(coords, w) ==
    (IF coords[1] > 0 THEN <<<<coords[1] - 1, coords[2]>>>> ELSE <<>>)
    \o (IF coords[1] < w.width - 1 THEN <<<<coords[1] + 1, coords[2]>>>> ELSE <<>>)
    \o (IF coords[2] > 0 THEN <<<<coords[1], coords[2] - 1>>>> ELSE <<>>)
    \o (IF coords[2] < w.height - 1 THEN <<<<coords[1], coords[2] + 1>>>> ELSE <<>>)

newCostOf(coords, c) == c[getKey(coords)] + 1

isNotDearer(n, newCost, c) ==
    getKey(n) \notin DOMAIN c \/ newCost <= c[getKey(n)]

\* the first filter's test: unvisited, or a cheaper path cost
isCheaper(n, newCost, c) ==
    getKey(n) \notin DOMAIN c \/ newCost < c[getKey(n)]

alwaysFree(n, w) == TRUE

\* the second filter's test
isFree(n, w) == getObject(w, n) = Null

\* the array getNeighbors returns
getNeighbors(coords, w, c) ==
    LET newCost == newCostOf(coords, c)
        Cheaper(n) == isCheaper(n, newCost, c)
        Free(n) == isFree(n, w)
    IN  SelectSeq(SelectSeq(boundedNeighbors(coords, w), Cheaper), Free)

\* the cost map after getNeighbors: the first filter sets the cost of every
\* neighbour it keeps, occupied or not
costAfterNeighbors(coords, w, c) ==
    LET newCost == newCostOf(coords, c)
        nb == boundedNeighbors(coords, w)
        kept == {getKey(nb[i]) : i \in {j \in 1 .. Len(nb) : isCheaper(nb[j], newCost, c)}}
    IN  [k \in DOMAIN c \cup kept |-> IF k \in kept THEN newCost ELSE c[k]]

cameFromUnchanged(cf, neighbors, candidate) == cf

\* neighbors.forEach(neighbor => cameFrom.set(getKey(neighbor), candidate))
cameFromAfter(cf, neighbors, candidate) ==
    LET keys == {getKey(neighbors[i]) : i \in 1 .. Len(neighbors)}
    IN  [k \in DOMAIN cf \cup keys |-> IF k \in keys THEN candidate ELSE cf[k]]

-----------------------------------------------------------------------------
(* Inputs *)

\* every grid within MaxSide and MaxCells, with every occupancy
SmallWorlds ==
    UNION {{[width |-> wh[1], height |-> wh[2], objects |-> o] :
                o \in SUBSET Cells(wh[1], wh[2])}
           : wh \in {p \in (1 .. MaxSide) \X (1 .. MaxSide) : p[1] * p[2] <= MaxCells}}

\* the unobstructed 5 x 5 grid
OpenWorld == [width |-> 5, height |-> 5, objects |-> {}]

\* a 5 x 3 grid where the straight way is walled off twice
DetourWorld ==
    [width |-> 5, height |-> 3, objects |-> {<<1, 0>>, <<1, 1>>, <<3, 1>>}]

\* an unobstructed corridor longer than the search distance
CorridorWorld == [width |-> maxSearchDistance + 3, height |-> 1, objects |-> {}]

\* a 5 x 7 grid whose odd rows are walls with one gap, at alternating ends
SerpentineWorld ==
    [width |-> 5, height |-> 7,
     objects |-> {c \in Cells(5, 7) :
                    /\ c[2] % 2 = 1
                    /\ c[1] # (IF c[2] % 4 = 1 THEN 4 ELSE 0)}]

Worlds == SmallWorlds \cup {OpenWorld, DetourWorld, CorridorWorld, SerpentineWorld}

Reverse(s) == [i \in 1 .. Len(s) |-> s[Len(s) + 1 - i]]

-----------------------------------------------------------------------------
(* RangedAttackAction *)

maxDistance == 5

animationDelay == 500

Source == "source"

Actors == {Source, "enemy", "other"}

\* THREE.Vector3.sub on a clone
sub(a, b) == <<a[1] - b[1], a[2] - b[2]>>

\* THREE.Vector3.length: Math.sqrt(x*x + y*y + z*z), kept exactly as its
\* integer part and whether the root is exact
length(v) ==
    LET sq == v[1] * v[1] + v[2] * v[2]
        whole == CHOOSE r \in 0 .. sq : r * r <= sq /\ sq < (r + 1) * (r + 1)
    IN  [whole |-> whole, exact |-> whole * whole = sq]

greaterOrEqual(distance, bound) == distance.whole >= bound

\* distance > bound, for a distance as length gives it and an integer bound
greaterThan(distance, bound) ==
    distance.whole > bound \/ (distance.whole = bound /\ ~distance.exact)

coordsCheckedFirst(t, acts) ==
    IF t = Null
    THEN [value |-> FALSE, reason |-> "Must have a valid target"]
    ELSE IF acts[t].coords = NoCoords \/ acts[Source].coords = NoCoords
    THEN [value |-> FALSE, reason |-> "Invalid target or source coordinates"]
    ELSE IF t = Source
    THEN [value |-> FALSE, reason |-> "Cannot target self"]
    ELSE IF greaterThan(length(sub(acts[t].coords, acts[Source].coords)), maxDistance)
    THEN [value |-> FALSE, reason |-> "Target is too far away"]
    ELSE [value |-> TRUE, reason |-> Null]

selfTargetAllowed(t, acts) ==
    IF t = Null
    THEN [value |-> FALSE, reason |-> "Must have a valid target"]
    ELSE IF acts[t].coords = NoCoords \/ acts[Source].coords = NoCoords
    THEN [value |-> FALSE, reason |-> "Invalid target or source coordinates"]
    ELSE IF greaterThan(length(sub(acts[t].coords, acts[Source].coords)), maxDistance)
    THEN [value |-> FALSE, reason |-> "Target is too far away"]
    ELSE [value |-> TRUE, reason |-> Null]

\* the checks of canPerform after the target is resolved, in their order
canPerformChecks(t, acts) ==
    IF t = Null
    THEN [value |-> FALSE, reason |-> "Must have a valid target"]
    ELSE IF t = Source
    THEN [value |-> FALSE, reason |-> "Cannot target self"]
    ELSE IF acts[t].coords = NoCoords \/ acts[Source].coords = NoCoords
    THEN [value |-> FALSE, reason |-> "Invalid target or source coordinates"]
    ELSE IF greaterThan(length(sub(acts[t].coords, acts[Source].coords)), maxDistance)
    THEN [value |-> FALSE, reason |-> "Target is too far away"]
    ELSE [value |-> TRUE, reason |-> Null]

targetIsOpponent(acts) ==
    IF acts[Source].getTargetObject = "base"
    THEN {acts[Source].opponent} ELSE Actors \cup {Null}

\* what the source's getTargetObject may resolve to: Player's own method
\* resolves to null, an overriding one to any object or null
targetChoices(acts) ==
    IF acts[Source].getTargetObject = "base" THEN {Null} ELSE Actors \cup {Null}

damageOfSix(k) == 3 + ((k * 6) \div RandomSteps)

\* 3 + Math.floor(Math.random() * 5) with Math.random() = k / RandomSteps
damageOf(k) == 3 + ((k * 5) \div RandomSteps)

\* the turn pipeline runs perform only after an accepting canPerform
pipelineAllowsPerform(position, validated) ==
    position = "validated" /\ validated.value

\* the cues of perform up to the timer
cuesBeforeHit(src, t) ==
    (IF src.faceTarget THEN <<<<"faceTarget", t>>>> ELSE <<>>)
    \o (IF src.playAnimation THEN <<<<"playAnimation", "ranged", FALSE>>>> ELSE <<>>)

\* the cues of perform after the hit; the last call is made whenever the
\* source has an opponent
cuesAfterHit(src) ==
    (IF src.playAnimation THEN <<<<"playAnimation", "idle", TRUE>>>> ELSE <<>>)
    \o (IF src.opponent # Null /\ src.faceTarget
        THEN <<<<"faceTarget", src.opponent>>>> ELSE <<>>)

idleBeforeHit(src, t, amount) == cuesAfterHit(src) \o <<<<"hit", t, amount>>>>

\* the calls of perform from the hit on: this.target.hit(...), then the cues
effectsFromHit(src, t, amount) == <<<<"hit", t, amount>>>> \o cuesAfterHit(src)

subInPlace(t, acts) ==
    IF t \in {Null, Source} \/ acts[t].coords = NoCoords \/ acts[Source].coords = NoCoords
    THEN acts
    ELSE [acts EXCEPT ![t].coords = sub(acts[t].coords, acts[Source].coords)]

\* the actors after the checks of canPerform: the distance is computed on a
\* clone of the target's coordinates, so nothing is written
actorsAfterChecks(t, acts) == acts

\* this.source.faceTarget(this.source.opponent) on a source without faceTarget
throwsAfterHit(src) == src.opponent # Null /\ ~src.faceTarget

NoValidation == [value |-> FALSE, reason |-> Null]

Coords == (0 .. MaxCoord) \X (0 .. MaxCoord)

SourceActors ==
    {a \in [coords : {NoCoords, <<0, 0>>, <<MaxCoord, MaxCoord>>},
            opponent : {Null, "enemy", "other"},
            getTargetObject : {"absent", "base", "overridden"},
            faceTarget : BOOLEAN,
            playAnimation : BOOLEAN] :
        a.getTargetObject = "base" => a.faceTarget /\ a.playAnimation}

OtherActors(cs) ==
    [coords : cs, opponent : {Null}, getTargetObject : {"absent"},
     faceTarget : {FALSE}, playAnimation : {FALSE}]

AttackIdle ==
    /\ actors = [a \in Actors |-> [coords |-> NoCoords, opponent |-> Null,
                                   getTargetObject |-> "absent",
                                   faceTarget |-> FALSE, playAnimation |-> FALSE]]
    /\ target = Null
    /\ apc = "idle"
    /\ validation = NoValidation
    /\ cues = <<>>
    /\ hits = <<>>
    /\ effects = <<>>
    /\ clock = 0

-----------------------------------------------------------------------------
(* search *)

SearchInit ==
    /\ world \in Worlds
    /\ start \in Cells(world.width, world.height)
    /\ end \in Cells(world.width, world.height)
    /\ pc = "call"
    /\ frontier = <<>>
    /\ cost = EmptyMap
    /\ cameFrom = EmptyMap
    /\ pathFound = FALSE
    /\ curr = <<>>
    /\ path = <<>>
    /\ result = NullResult
    /\ expanded = {}
    /\ AttackIdle

SearchSkipReturnsNull ==
    /\ pc = "call"
    /\ equals(start, end)
    /\ result' = NullResult
    /\ pc' = "done"
    /\ UNCHANGED <<world, start, end, frontier, cost, cameFrom, pathFound, curr, path, expanded>>
    /\ UNCHANGED attackVars

\* if (start.equals(end)) return [];
SearchSkip ==
    /\ pc = "call"
    /\ equals(start, end)
    /\ result' = PathResult(<<>>)
    /\ pc' = "done"
    /\ UNCHANGED <<world, start, end, frontier, cost, cameFrom, pathFound, curr, path, expanded>>
    /\ UNCHANGED attackVars

\* the initialisation before the loop
SearchBegin ==
    /\ pc = "call"
    /\ ~equals(start, end)
    /\ pathFound' = FALSE
    /\ cameFrom' = EmptyMap
    /\ cost' = MapSet(EmptyMap, getKey(start), 0)
    /\ frontier' = <<start>>
    /\ expanded' = {}
    /\ pc' = "loop"
    /\ UNCHANGED <<world, start, end, curr, path, result>>
    /\ UNCHANGED attackVars

\* one iteration that selects end: pathFound = true; break
LoopFound ==
    /\ pc = "loop"
    /\ frontier # <<>>
    /\ LET sorted == sortFrontier(frontier, start, end)
           candidate == Head(sorted)
       IN  /\ equals(candidate, end)
           /\ frontier' = Tail(sorted)
           /\ pathFound' = TRUE
           /\ pc' = "reconstruct"
           /\ curr' = end
           /\ path' = <<end>>
    /\ UNCHANGED <<world, start, end, cost, cameFrom, result, expanded>>
    /\ UNCHANGED attackVars

\* one iteration whose candidate is beyond the search distance: continue
LoopSkip ==
    /\ pc = "loop"
    /\ frontier # <<>>
    /\ LET sorted == sortFrontier(frontier, start, end)
           candidate == Head(sorted)
       IN  /\ ~equals(candidate, end)
           /\ exceedsSearchDistance(candidate, start)
           /\ frontier' = Tail(sorted)
    /\ UNCHANGED <<world, start, end, pc, cost, cameFrom, pathFound, curr, path, result, expanded>>
    /\ UNCHANGED attackVars

\* one iteration that expands its candidate
LoopExpand ==
    /\ pc = "loop"
    /\ frontier # <<>>
    /\ LET sorted == sortFrontier(frontier, start, end)
           candidate == Head(sorted)
           neighbors == getNeighbors(candidate, world, cost)
       IN  /\ ~equals(candidate, end)
           /\ ~exceedsSearchDistance(candidate, start)
           /\ cost' = costAfterNeighbors(candidate, world, cost)
           /\ frontier' = Tail(sorted) \o neighbors
           /\ cameFrom' = cameFromAfter(cameFrom, neighbors, candidate)
           /\ expanded' = expanded \cup {[coords |-> candidate,
                                           g |-> cost[getKey(candidate)]]}
    /\ UNCHANGED <<world, start, end, pc, pathFound, curr, path, result>>
    /\ UNCHANGED attackVars

\* the frontier is empty: if (!pathFound) return null
LoopExhausted ==
    /\ pc = "loop"
    /\ frontier = <<>>
    /\ result' = NullResult
    /\ pc' = "done"
    /\ UNCHANGED <<world, start, end, frontier, cost, cameFrom, pathFound, curr, path, expanded>>
    /\ UNCHANGED attackVars

\* one iteration of the reconstruction loop; a missing predecessor makes
\* getKey(undefined) throw
ReconstructStep ==
    /\ pc = "reconstruct"
    /\ getKey(curr) # getKey(start)
    /\ IF getKey(curr) \in DOMAIN cameFrom
       THEN /\ path' = Append(path, cameFrom[getKey(curr)])
            /\ curr' = cameFrom[getKey(curr)]
            /\ pc' = "reconstruct"
       ELSE /\ path' = path
            /\ curr' = <<>>
            /\ pc' = "threw"
    /\ UNCHANGED <<world, start, end, frontier, cost, cameFrom, pathFound, result, expanded>>
    /\ UNCHANGED attackVars

ReconstructReturnNoShift ==
    /\ pc = "reconstruct"
    /\ getKey(curr) = getKey(start)
    /\ result' = PathResult(Reverse(path))
    /\ pc' = "done"
    /\ UNCHANGED <<world, start, end, frontier, cost, cameFrom, pathFound, curr, path, expanded>>
    /\ UNCHANGED attackVars

\* path.reverse(); path.shift(); return path
ReconstructReturn ==
    /\ pc = "reconstruct"
    /\ getKey(curr) = getKey(start)
    /\ result' = PathResult(Tail(Reverse(path)))
    /\ pc' = "done"
    /\ UNCHANGED <<world, start, end, frontier, cost, cameFrom, pathFound, curr, path, expanded>>
    /\ UNCHANGED attackVars

SearchNext ==
    \/ SearchSkip
    \/ SearchBegin
    \/ LoopFound
    \/ LoopSkip
    \/ LoopExpand
    \/ LoopExhausted
    \/ ReconstructStep
    \/ ReconstructReturn

SearchSpec == SearchInit /\ [][SearchNext]_vars

-----------------------------------------------------------------------------
(* canPerform and perform *)

SearchIdle ==
    /\ world = [width |-> 1, height |-> 1, objects |-> {}]
    /\ start = <<0, 0>>
    /\ end = <<0, 0>>
    /\ pc = "idle"
    /\ frontier = <<>>
    /\ cost = EmptyMap
    /\ cameFrom = EmptyMap
    /\ pathFound = FALSE
    /\ curr = <<>>
    /\ path = <<>>
    /\ result = NullResult
    /\ expanded = {}

AttackInit ==
    /\ actors \in {[a \in Actors |-> IF a = Source THEN s ELSE IF a = "enemy" THEN e ELSE o] :
                     s \in SourceActors,
                     e \in OtherActors(Coords \cup {NoCoords}),
                     o \in OtherActors({NoCoords, <<MaxCoord, 0>>})}
    /\ target = Null
    /\ apc = "new"
    /\ validation = NoValidation
    /\ cues = <<>>
    /\ hits = <<>>
    /\ effects = <<>>
    /\ clock = 0
    /\ SearchIdle

\* canPerform up to its await: this.source.getTargetObject() is called; on a
\* source without it the call throws and the promise rejects
CanPerformCall ==
    /\ apc = "new"
    /\ apc' = IF actors[Source].getTargetObject = "absent" THEN "cpThrew" ELSE "awaitTarget"
    /\ UNCHANGED <<actors, target, validation, cues, hits, effects, clock>>
    /\ UNCHANGED searchVars

\* canPerform from the resolution of the target to its return
CanPerformResume ==
    /\ apc = "awaitTarget"
    /\ \E t \in targetChoices(actors) :
        /\ target' = t
        /\ validation' = canPerformChecks(t, actors)
        /\ actors' = actorsAfterChecks(t, actors)
    /\ apc' = "validated"
    /\ UNCHANGED <<cues, hits, effects, clock>>
    /\ UNCHANGED searchVars

\* perform from the hit to its end, after the calls in before
PerformTail(before) ==
    /\ \E k \in 0 .. RandomSteps - 1 :
        /\ hits' = Append(hits, [actor |-> target, amount |-> damageOf(k)])
        /\ effects' = effects \o before
                        \o effectsFromHit(actors[Source], target, damageOf(k))
    /\ apc' = IF throwsAfterHit(actors[Source]) THEN "pfThrew" ELSE "performed"
    /\ UNCHANGED <<actors, target, validation>>
    /\ UNCHANGED searchVars

PerformAnimatedNoAwait ==
    /\ pipelineAllowsPerform(apc, validation)
    /\ actors[Source].playAnimation
    /\ cues' = cues \o cuesBeforeHit(actors[Source], target) \o cuesAfterHit(actors[Source])
    /\ clock' = clock
    /\ PerformTail(cuesBeforeHit(actors[Source], target))

\* perform on a source with playAnimation: up to its await
PerformAnimated ==
    /\ pipelineAllowsPerform(apc, validation)
    /\ actors[Source].playAnimation
    /\ cues' = cues \o cuesBeforeHit(actors[Source], target)
    /\ effects' = effects \o cuesBeforeHit(actors[Source], target)
    /\ apc' = "delay"
    /\ UNCHANGED <<actors, target, validation, hits, clock>>
    /\ UNCHANGED searchVars

\* perform on a source with playAnimation: after the timer of 500 fired
PerformResume ==
    /\ apc = "delay"
    /\ clock' = clock + animationDelay
    /\ cues' = cues \o cuesAfterHit(actors[Source])
    /\ PerformTail(<<>>)

\* perform on a source without playAnimation: no await, one step
PerformPlain ==
    /\ pipelineAllowsPerform(apc, validation)
    /\ ~actors[Source].playAnimation
    /\ cues' = cues \o cuesBeforeHit(actors[Source], target) \o cuesAfterHit(actors[Source])
    /\ clock' = clock
    /\ PerformTail(cuesBeforeHit(actors[Source], target))

AttackNext ==
    \/ CanPerformCall
    \/ CanPerformResume
    \/ PerformAnimated
    \/ PerformResume
    \/ PerformPlain

AttackSpec == AttackInit /\ [][AttackNext]_vars

-----------------------------------------------------------------------------
(* Properties of search *)

FourNeighbors(c) ==
    {<<c[1] - 1, c[2]>>, <<c[1] + 1, c[2]>>, <<c[1], c[2] - 1>>, <<c[1], c[2] + 1>>}

Adjacent(a, b) == manhattanDistanceTo(a, b) = 1

\* the cells a route may step on: in bounds and unoccupied
FreeCells(w) == Cells(w.width, w.height) \ w.objects

\* the length of the shortest 4-connected route from s to e whose steps are
\* all on free cells, or -1 when there is none (breadth-first)
RECURSIVE RouteFrom(_, _, _, _)
RouteFrom(reached, d, w, e) ==
    IF e \in reached THEN d
    ELSE LET next == reached \cup
                     {n \in FreeCells(w) : \E c \in reached : n \in FourNeighbors(c)}
         IN  IF next = reached THEN -1 ELSE RouteFrom(next, d + 1, w, e)

RouteLength(w, s, e) == RouteFrom({s}, 0, w, e)

Returned == pc = "done"

ReturnedPath == pc = "done" /\ ~result.isNull

\* C1: when start # end and the shortest route from start to end through
\* in-bounds unoccupied cells has length L <= maxSearchDistance, search
\* returns a path of exactly L coordinates; on the unobstructed 5 x 5 grid
\* search((0,0), (0,3)) returns [(0,1), (0,2), (0,3)].
C1_ShortestPath ==
    (Returned /\ start # end) =>
        LET L == RouteLength(world, start, end)
        IN  /\ (L >= 0 /\ L <= maxSearchDistance) =>
                    (~result.isNull /\ Len(result.path) = L)
            /\ (world = OpenWorld /\ start = <<0, 0>> /\ end = <<0, 3>>) =>
                    result = PathResult(<<<<0, 1>>, <<0, 2>>, <<0, 3>>>>)

\* C2: in a returned path consecutive coordinates are 4-adjacent (they
\* differ by exactly 1 in exactly one of x, z) and no coordinate of the path
\* is occupied in the world of the call.
C2_AdjacentAndFree ==
    ReturnedPath =>
        /\ \A i \in 1 .. Len(result.path) - 1 :
              \/ /\ Abs(result.path[i][1] - result.path[i + 1][1]) = 1
                 /\ result.path[i][2] = result.path[i + 1][2]
              \/ /\ result.path[i][1] = result.path[i + 1][1]
                 /\ Abs(result.path[i][2] - result.path[i + 1][2]) = 1
        /\ \A i \in 1 .. Len(result.path) : result.path[i] \notin world.objects

\* a returned path of several steps that turns, in a world with objects
C2_Witness ==
    /\ ReturnedPath
    /\ Len(result.path) >= 3
    /\ world.objects # {}
    /\ \E i \in 1 .. Len(result.path) - 1 : result.path[i][1] # result.path[i + 1][1]
    /\ \E i \in 1 .. Len(result.path) - 1 : result.path[i][2] # result.path[i + 1][2]

\* C3 as stated: when every route from start to end is longer than
\* maxSearchDistance, search returns null; search never returns a path of
\* more than maxSearchDistance coordinates.
C3_RouteLengthBound ==
    (Returned /\ start # end) =>
        /\ RouteLength(world, start, end) > maxSearchDistance => result.isNull
        /\ ~result.isNull => Len(result.path) <= maxSearchDistance

\* C3 amended: when the Manhattan distance from start to end is greater than
\* maxSearchDistance + 1, search returns null even though a route exists;
\* every coordinate of a returned path except its last lies within Manhattan
\* distance maxSearchDistance of start (the path itself may be longer).
C3_ManhattanBound ==
    (Returned /\ start # end) =>
        /\ manhattanDistanceTo(start, end) > maxSearchDistance + 1 => result.isNull
        /\ ~result.isNull =>
              \A i \in 1 .. Len(result.path) - 1 :
                  manhattanDistanceTo(result.path[i], start) <= maxSearchDistance

\* a route exists, end is farther than the bound, and search returned null
C3_Witness ==
    /\ Returned
    /\ manhattanDistanceTo(start, end) > maxSearchDistance + 1
    /\ RouteLength(world, start, end) > 0
    /\ result.isNull

\* each of the four axis-aligned neighbours of end is occupied
Enclosed == FourNeighbors(end) \subseteq world.objects

\* C4 as stated: when start # end and each of the four neighbours of end is
\* occupied, also when start is one of them, search returns null.
C4_EnclosedUnreachable ==
    (Returned /\ start # end /\ Enclosed) => result.isNull

\* C4 amended: when start # end, each of the four neighbours of end is
\* occupied and start is not one of these neighbours, search returns null.
C4_EnclosedFromOutside ==
    (Returned /\ start # end /\ Enclosed /\ start \notin FourNeighbors(end)) =>
        result.isNull

\* end is free and enclosed, start is a free cell elsewhere
C4_Witness ==
    /\ Returned
    /\ Enclosed
    /\ start # end
    /\ start \notin FourNeighbors(end)
    /\ start \notin world.objects
    /\ end \notin world.objects
    /\ result.isNull

\* C5: search returns the empty path exactly when start = end (occupied or
\* not); for start # end it returns null or a non-empty path, and it never
\* throws.
C5_EmptyIffSame ==
    /\ pc # "threw"
    /\ Returned => (result = PathResult(<<>>) <=> start = end)
    /\ (Returned /\ start # end) => (result.isNull \/ Len(result.path) >= 1)

\* start = end on an occupied cell, and the empty path was returned
C5_Witness ==
    /\ Returned
    /\ start = end
    /\ start \in world.objects
    /\ result = PathResult(<<>>)

-----------------------------------------------------------------------------
(* Properties of RangedAttackAction *)

\* canPerform has returned (and perform may have run since)
Validated == apc \in {"validated", "delay", "performed", "pfThrew"}

\* perform has run to its end, normally or by throwing
PerformEnded == apc \in {"performed", "pfThrew"}

\* the squared straight-line distance between two coordinates
DistanceSquared(a, b) == (a[1] - b[1]) * (a[1] - b[1]) + (a[2] - b[2]) * (a[2] - b[2])

\* the target is resolved, is not the source, and both have coordinates
RangeDecides ==
    /\ Validated
    /\ target \notin {Null, Source}
    /\ actors[target].coords # NoCoords
    /\ actors[Source].coords # NoCoords

\* C6: for a resolved target that is not the source, with both coordinates
\* present, canPerform rejects with 'Target is too far away' exactly when
\* the squared distance is greater than 25, and returns {value: true} when
\* the distance is less than or equal to 5.
C6_RangeBoundary ==
    RangeDecides =>
        LET d2 == DistanceSquared(actors[target].coords, actors[Source].coords)
        IN  /\ d2 > 25 <=> validation = [value |-> FALSE, reason |-> "Target is too far away"]
            /\ d2 <= 25 <=> validation = [value |-> TRUE, reason |-> Null]

\* a target at distance exactly 5 (3 and 4 apart) was accepted
C6_Witness ==
    /\ RangeDecides
    /\ Abs(actors[target].coords[1] - actors[Source].coords[1]) = 3
    /\ Abs(actors[target].coords[2] - actors[Source].coords[2]) = 4
    /\ validation.value

\* C7: canPerform checks no-target, self-target, missing coordinates and
\* distance in this order and the first failing check gives the reason: a
\* null target gives 'Must have a valid target'; the source as target gives
\* 'Cannot target self' whatever the coordinates; missing coordinates give
\* 'Invalid target or source coordinates' whatever the distance.
C7_CheckOrder ==
    Validated =>
        /\ target = Null =>
              validation = [value |-> FALSE, reason |-> "Must have a valid target"]
        /\ target = Source =>
              validation = [value |-> FALSE, reason |-> "Cannot target self"]
        /\ (/\ target \notin {Null, Source}
            /\ (actors[target].coords = NoCoords \/ actors[Source].coords = NoCoords)) =>
              validation = [value |-> FALSE,
                            reason |-> "Invalid target or source coordinates"]
        /\ validation.reason = "Target is too far away" => RangeDecides

\* the source targeted itself while it has no coordinates
C7_Witness ==
    /\ Validated
    /\ target = Source
    /\ actors[Source].coords = NoCoords
    /\ validation.reason = "Cannot target self"

\* C8: every execution of perform calls hit exactly once, on the target,
\* with an integer amount in 3 .. 7; no other actor is hit.
C8_DamageOnceInRange ==
    /\ PerformEnded =>
          /\ Len(hits) = 1
          /\ hits[1].actor = target
          /\ hits[1].amount \in 3 .. 7
    /\ ~PerformEnded => hits = <<>>

\* perform ended and the largest damage, 7, was applied
C8_Witness ==
    /\ apc = "performed"
    /\ Len(hits) = 1
    /\ hits[1].actor = target
    /\ hits[1].amount = 7

\* C9: canPerform never throws, whatever capabilities or coordinates the
\* source lacks: it always returns a {value, reason} result.
C9_NeverThrows == apc # "cpThrew"

\* C10: perform never fails, whatever optional capabilities the source
\* lacks and whether or not it has an opponent: it completes and the damage
\* is applied.
C10_BestEffort == apc # "pfThrew"

\* C11 as stated: in every execution of perform, with or without the
\* animation capability, the delay of 500 has elapsed when hit() is called.
C11_DelayBeforeDamage == hits # <<>> => clock >= animationDelay

\* C11 amended: on a source that supports the animation capability the
\* delay of 500 elapses before hit() is called; on a source without it
\* hit() is called with no delay at all.
C11_DelayOnlyWhenAnimated ==
    hits # <<>> =>
        IF actors[Source].playAnimation THEN clock >= animationDelay ELSE clock = 0

\* an animated source has hit its target after the delay
C11_Witness ==
    /\ apc = "performed"
    /\ actors[Source].playAnimation
    /\ hits # <<>>
    /\ clock = animationDelay

\* the positions in effects of the calls of one kind
HitAt == {i \in 1 .. Len(effects) : effects[i][1] = "hit"}

RangedAt == {i \in 1 .. Len(effects) : effects[i] = <<"playAnimation", "ranged", FALSE>>}

IdleAt == {i \in 1 .. Len(effects) : effects[i] = <<"playAnimation", "idle", TRUE>>}

FaceAt == {i \in 1 .. Len(effects) : effects[i][1] = "faceTarget"}

\* C12: the effects of perform occur in the order face the target, 'ranged'
\* cue, damage to the target, 'idle' cue (looping), face the opponent (only
\* when the source has one): the damage is never before the 'ranged' cue nor
\* after the 'idle' cue, and the facing request after the damage names the
\* opponent, not the target.
C12_EffectOrder ==
    /\ \A i \in 1 .. Len(effects) : i \in HitAt \cup RangedAt \cup IdleAt \cup FaceAt
    /\ \A h \in HitAt : effects[h][2] = target
    /\ \A r \in RangedAt : \A h \in HitAt : r < h
    /\ \A h \in HitAt : \A d \in IdleAt : h < d
    /\ \A f \in FaceAt :
          \/ /\ effects[f][2] = target
             /\ \A i \in RangedAt \cup HitAt \cup IdleAt : f < i
          \/ /\ actors[Source].opponent # Null
             /\ effects[f][2] = actors[Source].opponent
             /\ \A i \in RangedAt \cup HitAt \cup IdleAt : i < f
             /\ f = Len(effects)
    /\ apc = "performed" =>
          /\ Cardinality(HitAt) = 1
          /\ actors[Source].faceTarget => effects[1] = <<"faceTarget", target>>
          /\ actors[Source].playAnimation => (RangedAt # {} /\ IdleAt # {})
          /\ actors[Source].opponent # Null =>
                effects[Len(effects)] = <<"faceTarget", actors[Source].opponent>>

\* all five effects occurred and the opponent is not the target
C12_Witness ==
    /\ apc = "performed"
    /\ Len(effects) = 5
    /\ actors[Source].opponent # target

\* C13: canPerform, accepting or rejecting, changes nothing but the action's
\* own target (and its returned result): the actors' coordinates and
\* opponents stay as they are, and no damage, cue or timer is caused.
C13_ValidationFrame ==
    [][(apc = "new" \/ apc = "awaitTarget") =>
          (actors' = actors /\ cues' = cues /\ hits' = hits
           /\ effects' = effects /\ clock' = clock)]_vars

\* canPerform accepted a target in range and nothing else has happened
C13_Witness ==
    /\ apc = "validated"
    /\ validation.value
    /\ target = "enemy"
    /\ actors[target].coords # actors[Source].coords
    /\ cues = <<>>
    /\ hits = <<>>

\* C14: when perform runs only after an accepting canPerform on the same
\* action, every damage is applied to the target that canPerform resolved,
\* which is not null, not the source and within distance 5 of the source;
\* no damage is applied after a rejecting canPerform.
C14_DamageOnlyAsValidated ==
    /\ hits # <<>> =>
          /\ validation.value
          /\ target \notin {Null, Source}
          /\ \A i \in 1 .. Len(hits) : hits[i].actor = target
          /\ actors[target].coords # NoCoords
          /\ actors[Source].coords # NoCoords
          /\ DistanceSquared(actors[target].coords, actors[Source].coords)
                <= maxDistance * maxDistance
    /\ (Validated /\ ~validation.value) => (hits = <<>> /\ apc = "validated")

\* the bystander was chosen as target, validated and hit
C14_Witness ==
    /\ PerformEnded
    /\ target = "other"
    /\ hits # <<>>
    /\ hits[1].actor = "other"

\* C20: for a source that is a base Player (getTargetObject not overridden)
\* canPerform always rejects with 'Must have a valid target', whatever the
\* opponent and the coordinates, so no ranged damage is ever applied for it.
C20_BasePlayerNeverAttacks ==
    actors[Source].getTargetObject = "base" =>
        /\ Validated =>
              validation = [value |-> FALSE, reason |-> "Must have a valid target"]
        /\ apc \in {"new", "awaitTarget", "validated"}
        /\ hits = <<>>

\* a base Player with an opponent in range was rejected
C20_Witness ==
    /\ actors[Source].getTargetObject = "base"
    /\ apc = "validated"
    /\ actors[Source].opponent = "enemy"
    /\ actors[Source].coords = <<0, 0>>
    /\ actors["enemy"].coords = <<0, 1>>
    /\ ~validation.value

-----------------------------------------------------------------------------
(* The search loop: selection, pruning, frontier and predecessor maps *)

\* f = g + h with g the recorded cost of v and h its Manhattan distance to end
FScore(v) == cost[getKey(v)] + manhattanDistanceTo(v, end)

\* the candidate the next iteration of the loop removes from the frontier
NextCandidate == Head(sortFrontier(frontier, start, end))

\* C15: in every iteration of the search loop the candidate removed from the
\* frontier minimizes f = g + h over all frontier entries, g being the cost
\* recorded in the cost map and h the Manhattan distance to end.
C15_SelectsMinF ==
    (pc = "loop" /\ frontier # <<>>) =>
        \A i \in 1 .. Len(frontier) : FScore(NextCandidate) <= FScore(frontier[i])

\* C16 as stated: getNeighbors is never called on a cell whose recorded cost
\* is greater than maxSearchDistance.
C16_CostBound == \A r \in expanded : r.g <= maxSearchDistance

\* C16 amended: getNeighbors is never called on a cell whose Manhattan
\* distance from start is greater than maxSearchDistance; the recorded cost
\* of an expanded cell is at least that distance and can be greater than
\* maxSearchDistance.
C16_ManhattanRadius ==
    \A r \in expanded :
        /\ manhattanDistanceTo(r.coords, start) <= maxSearchDistance
        /\ manhattanDistanceTo(r.coords, start) <= r.g

\* a search is over in which a cell at the largest allowed Manhattan distance
\* was expanded
C16_Witness ==
    /\ pc = "done"
    /\ \E r \in expanded : manhattanDistanceTo(r.coords, start) = maxSearchDistance

\* the neighbours a step of the loop appends to the frontier
Pushed ==
    IF pc = "loop" /\ frontier # <<>>
    THEN SubSeq(frontier', Len(frontier), Len(frontier'))
    ELSE <<>>

\* a neighbour is pushed only when it was unvisited or gets a strictly lower
\* cost, and its cost and predecessor are set in that same step
PushedOnlyWhenCheaper ==
    \A i \in 1 .. Len(Pushed) :
        LET n == Pushed[i]
            newCost == cost[getKey(NextCandidate)] + 1
        IN  /\ getKey(n) \notin DOMAIN cost \/ newCost < cost[getKey(n)]
            /\ cost'[getKey(n)] = newCost
            /\ cameFrom'[getKey(n)] = NextCandidate

\* within one call no entry of the cost map is removed or raised
CostNeverIncreases ==
    pc # "call" =>
        \A k \in DOMAIN cost : k \in DOMAIN cost' /\ cost'[k] <= cost[k]

\* a predecessor entry changes only in a step that lowers (or first sets)
\* the cost of the same coordinate
PredecessorWithCost ==
    pc # "call" =>
        \A k \in DOMAIN cameFrom' :
            (k \notin DOMAIN cameFrom \/ cameFrom'[k] # cameFrom[k]) =>
                (k \notin DOMAIN cost \/ cost'[k] < cost[k])

\* every frontier coordinate other than start has a 4-adjacent predecessor
FrontierHasPredecessor(f, cf) ==
    \A i \in 1 .. Len(f) :
        f[i] # start =>
            /\ getKey(f[i]) \in DOMAIN cf
            /\ Adjacent(cf[getKey(f[i])], f[i])

FrontierStep ==
    /\ PushedOnlyWhenCheaper
    /\ CostNeverIncreases
    /\ PredecessorWithCost
    /\ FrontierHasPredecessor(frontier', cameFrom')

\* C17: throughout one search call a neighbour is pushed onto the frontier
\* only if it had no cost entry or the new cost (expanded cell's cost + 1) is
\* strictly lower than its recorded cost; the recorded cost of a coordinate
\* never increases; and every frontier coordinate other than start has a
\* 4-adjacent predecessor entry, updated at the same step as its cost.
C17_FrontierDiscipline == [][FrontierStep]_vars

\* a coordinate was pushed a second time, at a lower cost than recorded
\* when it was first pushed
C17_Witness ==
    /\ pc = "loop"
    /\ \E i, j \in 1 .. Len(frontier) : i < j /\ frontier[i] = frontier[j]

-----------------------------------------------------------------------------
(* The reconstruction of the path *)

\* C18: a returned non-null, non-empty path ends at end, begins at a
\* coordinate 4-adjacent to start, does not contain start and contains no
\* coordinate twice.
C18_PathShape ==
    (ReturnedPath /\ result.path # <<>>) =>
        LET p == result.path
        IN  /\ p[Len(p)] = end
            /\ Adjacent(p[1], start)
            /\ \A i \in 1 .. Len(p) : p[i] # start
            /\ \A i, j \in 1 .. Len(p) : i # j => p[i] # p[j]

\* a path of several coordinates that bends was returned
C18_Witness ==
    /\ ReturnedPath
    /\ Len(result.path) >= 3
    /\ \E i \in 1 .. Len(result.path) :
          result.path[i][1] # start[1] /\ result.path[i][2] # start[2]

-----------------------------------------------------------------------------
(* Termination *)

GridSize == world.width * world.height

\* the sum over all cells of the grid of the recorded cost of the cell, a
\* cell without recorded cost counting GridSize + 1 (more than any recorded
\* cost); the recorded costs are summed by counting the pairs of a key and a
\* positive number up to its cost
SumPotential ==
    Cardinality({kv \in (DOMAIN cost) \X (1 .. GridSize) : kv[2] <= cost[kv[1]]})
        + (GridSize - Cardinality(DOMAIN cost)) * (GridSize + 1)

\* a natural number that bounds the steps search can still take: in the loop
\* every step removes a frontier entry and pays for each entry it appends
\* with a strictly lower recorded cost; in the reconstruction the recorded
\* cost of curr is the number of predecessor steps left
Variant ==
    CASE pc = "call" ->
            GridSize + 3 + 2 * GridSize * (GridSize + 1)
      [] pc = "loop" ->
            GridSize + 1 + 2 * SumPotential
                + Len(frontier)
      [] pc = "reconstruct" -> 1 + cost[getKey(curr)]
      [] OTHER -> 0

VariantDecreases == Variant' \in 0 .. Variant - 1

\* search has returned, or it is at a step it can take: it has not thrown,
\* and in the reconstruction curr is start or has a predecessor
ReturnedOrRunning ==
    \/ pc \in {"done", "call", "loop"}
    \/ /\ pc = "reconstruct"
       /\ getKey(curr) = getKey(start) \/ getKey(curr) \in DOMAIN cameFrom

\* C19: search always terminates: every step of the frontier loop and of the
\* reconstruction lowers a natural-number variant (a coordinate is re-added
\* only when its cost strictly decreases; each predecessor has a lower
\* cost), and search never stops anywhere but at its return: it meets no
\* missing predecessor and no cycle.
C19_Terminates == []ReturnedOrRunning /\ [][VariantDecreases]_vars

\* the frontier was emptied after several expansions
C19_Witness ==
    /\ pc = "done"
    /\ result.isNull
    /\ frontier = <<>>
    /\ Cardinality(expanded) >= 3

=============================================================================
